---- MODULE Spec2Model ----
(***************************************************************************)
(* PeerRpcManager (easytier-core/src/peers/peer_rpc.rs): the peer RPC      *)
(* multiplexer.  Two multiplexers (peers 1 and 2) are joined by a          *)
(* transport; peer 3 is a remote peer whose frames arrive from the         *)
(* transport without a multiplexer of this model behind them.              *)
(*                                                                         *)
(* As in the tests, the owner of a PeerRpcManager calls run() before       *)
(* anything else, the user of peer 1 makes the do_client_rpc_scoped calls  *)
(* and the user of peer 2 the run_service calls; both dispatchers serve    *)
(* whatever arrives.  The remote peer sends requests (well-formed or not)  *)
(* and other control packets to peer 2 and responses to peer 1.  Frames    *)
(* carry a to_peer, and the transport's recv never fails.  The serving     *)
(* task answers the requests of an endpoint in the order they were         *)
(* injected, and a closure f issues its requests one after the other.      *)
(***************************************************************************)
EXTENDS Integers, Sequences, FiniteSets, TLC

\* ------------------------------------------------------------------ bounds
\* calls the users make and frames the remote peer sends in one run:
\* run_service calls, do_client_rpc_scoped calls, requests issued by their
\* closures, frames arriving from the remote peer
MaxOps == 4

\* ------------------------------------------------------------- value sets
Peers == {1, 2, 3}                 \* uuid::Uuid values
Muxes == {1, 2}                    \* peers that run a PeerRpcManager
RemotePeers == Peers \ Muxes
ClientPeers == {1}                 \* peers whose user calls do_client_rpc_scoped
ServerPeers == {2}                 \* peers whose user calls run_service
ServiceIds == {1, 2}               \* PeerRpcServiceId values
Handlers == {"hello_a", "hello_b"} \* MockService prefixes
Args == {"abc"}
None == "none"                     \* Option::None, absent map entry
Keys == Peers \X ServiceIds        \* (uuid, service id) map keys

\* ------------------------------------------------- payload codec (bincode)
\* tarpc::ClientMessage::Request and tarpc::Response as the bridge sees them
ClientMessage(id, arg) == [request_id |-> id, arg |-> arg]
Response(id, ret) == [request_id |-> id, ret |-> ret]

\* MockService::hello: format!("{} {}", self.prefix, s)
Hello(prefix, s) == <<prefix, s>>

\* bincode::serialize of a request / of a response: a tagged byte string
SerializeReq(msg) == <<"Q", msg.request_id, msg.arg>>
SerializeResp(msg) == <<"R", msg.request_id, msg.ret[1], msg.ret[2]>>

\* bincode::deserialize::<ClientMessage<Req>>: Err unless the bytes are a request
DeserializeReq(content) ==
    IF Len(content) = 3 /\ content[1] = "Q"
    THEN [ok |-> TRUE, msg |-> ClientMessage(content[2], content[3])]
    ELSE [ok |-> FALSE, msg |-> ClientMessage(0, None)]

\* bincode::deserialize of a server-to-client message
DeserializeResp(content) ==
    IF Len(content) = 4 /\ content[1] = "R"
    THEN [ok |-> TRUE, msg |-> Response(content[2], <<content[3], content[4]>>)]
    ELSE [ok |-> FALSE, msg |-> Response(0, <<None, None>>)]

\* --------------------------------------------------------- packet envelope
\* Packet::new_tarpc_packet(from, to, service_id, is_req, content)
NewTarpcPacket(from, to, service_id, is_req, content) ==
    [from_peer |-> from, to_peer |-> to,
     body |-> [variant |-> "TaRpc", id |-> service_id, is_req |-> is_req,
               content |-> content]]

\* a packet whose body is another control variant
OtherPacket(from, to) ==
    [from_peer |-> from, to_peer |-> to,
     body |-> [variant |-> "Other", id |-> 0, is_req |-> FALSE, content |-> <<>>]]

\* PeerRpcManager::parse_rpc_packet
ParseRpcPacket(packet) ==
    IF packet.body.variant = "TaRpc"
    THEN [ok |-> TRUE,
          from_peer |-> packet.from_peer,
          to_peer |-> packet.to_peer,
          service_id |-> packet.body.id,
          is_req |-> packet.body.is_req,
          content |-> packet.body.content]
    ELSE [ok |-> FALSE, from_peer |-> 0, to_peer |-> 0, service_id |-> 0,
          is_req |-> FALSE, content |-> <<>>]

\* ------------------------------------------------------------------- state
VARIABLES
    dispatcher,             \* per peer: the task spawned by run()
    service_registry,       \* per peer: service id -> endpoint creator
    peer_rpc_endpoints,     \* per peer: (uuid, service id) -> PeerRpcEndPoint
    client_resp_receivers,  \* per peer: PeerRpcClientCtxKey -> packet sender
    scopes,                 \* per peer: the do_client_rpc_scoped calls made
    net,                    \* per peer: frames the transport holds for recv()
    run_service_ret,        \* the last run_service call and how it ended
    registered,             \* per peer: the (service id, handler) pairs run_service was given
    creator_calls,          \* per peer: arguments of the creator invocations
    recv_log,               \* per peer: what the dispatcher did with each frame
    n_inject                \* frames that arrived from the remote peer

vars == <<dispatcher, service_registry, peer_rpc_endpoints, client_resp_receivers,
          scopes, net, run_service_ret, registered, creator_calls, recv_log,
          n_inject>>

\* ----------------------------------------------------------------- helpers
\* DashMap::insert / entry().or_insert_with on a map kept as a partial function
MapInsert(map, key, value) ==
    [x \in (DOMAIN map) \cup {key} |-> IF x = key THEN value ELSE map[x]]

EmptyMap == [x \in {} |-> None]

\* tspt.send(msg, dst): the frame joins dst's receive queue; a failed send
\* loses it; frames for a remote peer leave the model
TsptSend(netv, msg, dst_peer_id, ok) ==
    IF ok /\ dst_peer_id \in Muxes
    THEN [netv EXCEPT ![dst_peer_id] = Append(@, msg)]
    ELSE netv

RECURSIVE SumCalls(_)
SumCalls(ss) == IF ss = <<>> THEN 0 ELSE Len(Head(ss).calls) + SumCalls(Tail(ss))

\* every PeerRpcManager has been started: its owner calls run() right after new()
Started == \A m \in Muxes : dispatcher[m] # "idle"

\* user calls made and remote frames received so far
OpsUsed ==
    run_service_ret.n + n_inject
    + Len(scopes[1]) + Len(scopes[2]) + SumCalls(scopes[1]) + SumCalls(scopes[2])

\* the closure run_service stores: it captures service_id and the handler s
Creator(service_id, s) == [service_id |-> service_id, s |-> s]

\* the creator called with peer_id: a fresh endpoint, its bridge task started
NewEndPoint(creator, peer_id) ==
    [peer_id |-> peer_id,
     service_id |-> creator.service_id,
     s |-> creator.s,
     bridge |-> "running",
     packet_receiver |-> <<>>,     \* packets the dispatcher sent, not yet taken
     cur_req_uuid |-> {},          \* Option<Uuid> as a set of at most one peer
     to_server |-> <<>>,           \* client_transport: requests injected
     from_server |-> <<>>,         \* client_transport: responses not yet taken
     n_enqueued |-> 0,             \* packets ever handed to this endpoint
     origins |-> {},               \* from_peer of the packets ever handed to it
     n_sent |-> 0]                 \* response packets ever handed to the transport

\* -------------------------------------------------------------------- init
Init ==
    /\ dispatcher = [m \in Muxes |-> "idle"]
    /\ service_registry = [m \in Muxes |-> EmptyMap]
    /\ peer_rpc_endpoints = [m \in Muxes |-> EmptyMap]
    /\ client_resp_receivers = [m \in Muxes |-> EmptyMap]
    /\ scopes = [m \in Muxes |-> <<>>]
    /\ net = [m \in Muxes |-> <<>>]
    /\ run_service_ret = [n |-> 0, mux |-> 0, service_id |-> 0, ret |-> None]
    /\ registered = [m \in Muxes |-> {}]
    /\ creator_calls = [m \in Muxes |-> <<>>]
    /\ recv_log = [m \in Muxes |-> <<>>]
    /\ n_inject = 0

\* -------------------------------------------------------------- run_service
\* faulty variant: a duplicate registration passes silently
RunServiceRetSilent(present) == "ok"

\* how run_service ends: insert returned Some(_) -> panic
RunServiceRet(present) == IF present THEN "panic" ELSE "ok"

\* run_service(service_id, s) on peer m
RunService(m, service_id, s) ==
    /\ Started
    /\ OpsUsed < MaxOps
    /\ service_registry' = [service_registry EXCEPT
                              ![m] = MapInsert(@, service_id, Creator(service_id, s))]
    /\ run_service_ret' = [n |-> run_service_ret.n + 1, mux |-> m,
                           service_id |-> service_id,
                           ret |-> RunServiceRet(service_id \in DOMAIN service_registry[m])]
    /\ registered' = [registered EXCEPT ![m] = @ \cup {<<service_id, s>>}]
    /\ UNCHANGED <<dispatcher, peer_rpc_endpoints, client_resp_receivers, scopes,
                   net, creator_calls, recv_log, n_inject>>

\* ---------------------------------------------------------------------- run
\* run(): spawns the dispatcher task
Run(m) ==
    /\ dispatcher[m] = "idle"
    /\ dispatcher' = [dispatcher EXCEPT ![m] = "running"]
    /\ UNCHANGED <<service_registry, peer_rpc_endpoints, client_resp_receivers,
                   scopes, net, run_service_ret, registered, creator_calls, recv_log, n_inject>>

\* the key the dispatcher looks an endpoint up under
EndPointKey(info) == <<info.to_peer, info.service_id>>

\* the peer the dispatcher passes to the creator
CreatorArg(info) == info.from_peer

\* the key the dispatcher looks a client sink up under
ClientCtxKey(info) == <<info.from_peer, info.service_id>>

\* faulty variant: the dispatcher sends the packet to the endpoint twice
EndPointEnqueueTwice(ep, packet) ==
    [ep EXCEPT !.packet_receiver = Append(Append(@, packet), packet),
               !.n_enqueued = @ + 1,
               !.origins = @ \cup {packet.from_peer}]

\* mpsc send of a packet to an endpoint
EndPointEnqueue(ep, packet) ==
    [ep EXCEPT !.packet_receiver = Append(@, packet), !.n_enqueued = @ + 1,
               !.origins = @ \cup {packet.from_peer}]

\* faulty variant: the dispatcher invokes whichever creator it finds first
CreatorForAny(registry, info) == registry[CHOOSE x \in DOMAIN registry : TRUE]

\* the creator the dispatcher invokes for a request
CreatorFor(registry, info) == registry[info.service_id]

\* faulty variant: the dispatcher unwraps the missing creator
OnServiceNotFoundPanic(task) == "panicked"

\* the dispatcher task after "service {} not found": continue
OnServiceNotFound(task) == task

\* faulty variant: the dispatcher unwraps the missing receiver
OnReceiverNotFoundPanic(task) == "panicked"

\* the dispatcher task after "client resp receiver not found"
OnReceiverNotFound(task) == task

\* request path of the dispatcher loop
DispatchReq(m, packet, info) ==
    IF info.service_id \notin DOMAIN service_registry[m]
    THEN /\ recv_log' = [recv_log EXCEPT ![m] = Append(@, "service_not_found")]
         /\ dispatcher' = [dispatcher EXCEPT ![m] = OnServiceNotFound(@)]
         /\ UNCHANGED <<peer_rpc_endpoints, creator_calls, scopes>>
    ELSE LET key == EndPointKey(info)
             fresh == key \notin DOMAIN peer_rpc_endpoints[m]
             ep == IF fresh
                   THEN NewEndPoint(CreatorFor(service_registry[m], info), CreatorArg(info))
                   ELSE peer_rpc_endpoints[m][key]
         IN IF ep.bridge = "panicked"
            THEN \* the receiver died with the bridge: packet_sender.send(..).unwrap()
                 /\ dispatcher' = [dispatcher EXCEPT ![m] = "panicked"]
                 /\ recv_log' = [recv_log EXCEPT ![m] = Append(@, "panic")]
                 /\ UNCHANGED <<peer_rpc_endpoints, creator_calls, scopes>>
            ELSE /\ peer_rpc_endpoints' = [peer_rpc_endpoints EXCEPT
                        ![m] = MapInsert(@, key, EndPointEnqueue(ep, packet))]
                 /\ creator_calls' = IF fresh
                        THEN [creator_calls EXCEPT
                                ![m] = Append(@, <<CreatorArg(info), info.service_id>>)]
                        ELSE creator_calls
                 /\ recv_log' = [recv_log EXCEPT ![m] = Append(@, "to_endpoint")]
                 /\ UNCHANGED <<dispatcher, scopes>>

\* response path of the dispatcher loop
DispatchResp(m, packet, info) ==
    LET key == ClientCtxKey(info) IN
    IF key \notin DOMAIN client_resp_receivers[m]
    THEN /\ recv_log' = [recv_log EXCEPT ![m] = Append(@, "receiver_not_found")]
         /\ dispatcher' = [dispatcher EXCEPT ![m] = OnReceiverNotFound(@)]
         /\ UNCHANGED <<peer_rpc_endpoints, creator_calls, scopes>>
    ELSE LET a == client_resp_receivers[m][key] IN
         IF scopes[m][a].pc = "returned"
         THEN \* the receiver half is gone: a.send(packet) is Err
              /\ recv_log' = [recv_log EXCEPT ![m] = Append(@, "send_failed")]
              /\ UNCHANGED <<dispatcher, peer_rpc_endpoints, creator_calls, scopes>>
         ELSE /\ scopes' = [scopes EXCEPT ![m][a].packet_receiver = Append(@, packet)]
              /\ recv_log' = [recv_log EXCEPT ![m] = Append(@, "to_client")]
              /\ UNCHANGED <<dispatcher, peer_rpc_endpoints, creator_calls>>

\* one turn of the dispatcher loop: recv, decode, parse, route
Dispatch(m) ==
    /\ dispatcher[m] = "running"
    /\ net[m] # <<>>
    /\ LET packet == Head(net[m])
           info == ParseRpcPacket(packet)
       IN /\ net' = [net EXCEPT ![m] = Tail(@)]
          /\ IF ~info.ok
             THEN \* parse_rpc_packet(..).unwrap() panics: the task is gone
                  /\ dispatcher' = [dispatcher EXCEPT ![m] = "panicked"]
                  /\ recv_log' = [recv_log EXCEPT ![m] = Append(@, "panic")]
                  /\ UNCHANGED <<peer_rpc_endpoints, creator_calls, scopes>>
             ELSE IF info.is_req
                  THEN DispatchReq(m, packet, info)
                  ELSE DispatchResp(m, packet, info)
    /\ UNCHANGED <<service_registry, client_resp_receivers, run_service_ret, registered,
                   n_inject>>

\* ------------------------------------------------ endpoint: the bridge task
\* faulty variant: the request overtakes the requests injected before it
ClientTransportSendFront(chan, decoded) == <<decoded>> \o chan

\* client_transport.send(decoded): the request joins the in-process channel
ClientTransportSend(chan, decoded) == Append(chan, decoded)

\* select! arm `Some(packet) = packet_receiver.recv()`
BridgeRecv(m, key) ==
    /\ key \in DOMAIN peer_rpc_endpoints[m]
    /\ LET ep == peer_rpc_endpoints[m][key] IN
       /\ ep.bridge = "running"
       /\ ep.packet_receiver # <<>>
       /\ LET packet == Head(ep.packet_receiver)
              info == ParseRpcPacket(packet)
              taken == [ep EXCEPT !.packet_receiver = Tail(@)]
              decoded_ret == DeserializeReq(info.content)
              next_ep ==
                 IF ~info.ok THEN taken
                 ELSE IF info.service_id # ep.service_id
                      THEN [taken EXCEPT !.bridge = "panicked"]   \* assert_eq!
                 ELSE IF ~decoded_ret.ok
                      THEN [taken EXCEPT !.cur_req_uuid = {packet.from_peer}]
                 ELSE [taken EXCEPT
                         !.cur_req_uuid = {packet.from_peer},
                         !.to_server = ClientTransportSend(@, decoded_ret.msg)]
          IN peer_rpc_endpoints' = [peer_rpc_endpoints EXCEPT ![m][key] = next_ep]
    /\ UNCHANGED <<dispatcher, service_registry, client_resp_receivers, scopes, net,
                   run_service_ret, registered, creator_calls, recv_log, n_inject>>

\* the serving task (server.execute(s.clone())): one request in, the handler's
\* response out
Serve(m, key) ==
    /\ key \in DOMAIN peer_rpc_endpoints[m]
    /\ LET ep == peer_rpc_endpoints[m][key] IN
       /\ ep.to_server # <<>>
       /\ LET req == Head(ep.to_server)
              resp == Response(req.request_id, Hello(ep.s, req.arg))
          IN peer_rpc_endpoints' = [peer_rpc_endpoints EXCEPT
                 ![m][key] = [ep EXCEPT !.to_server = Tail(@),
                                        !.from_server = Append(@, resp)]]
    /\ UNCHANGED <<dispatcher, service_registry, client_resp_receivers, scopes, net,
                   run_service_ret, registered, creator_calls, recv_log, n_inject>>

\* the response packet the bridge builds
BridgeRespPacket(m, ep, resp) ==
    NewTarpcPacket(m, CHOOSE p \in ep.cur_req_uuid : TRUE, ep.service_id, FALSE,
                   SerializeResp(resp))

\* the peer the bridge sends the response packet to
BridgeRespDst(ep) == ep.peer_id

\* faulty variant: the bridge unwraps the result of tspt.send
OnSendFailedPanic(task) == "panicked"

\* the bridge task after "send resp to peer failed": the loop goes on
OnSendFailed(task) == task

\* select! arm `Some(resp) = client_transport.next()`; ok: tspt.send succeeds
BridgeResp(m, key, ok) ==
    /\ key \in DOMAIN peer_rpc_endpoints[m]
    /\ LET ep == peer_rpc_endpoints[m][key] IN
       /\ ep.bridge = "running"
       /\ ep.from_server # <<>>
       /\ LET resp == Head(ep.from_server)
              taken == [ep EXCEPT !.from_server = Tail(@)]
          IN IF ep.cur_req_uuid = {}
             THEN \* "cur_req_uuid is none, ignore this resp": nothing is sent
                  /\ ok
                  /\ peer_rpc_endpoints' = [peer_rpc_endpoints EXCEPT ![m][key] = taken]
                  /\ net' = net
             ELSE /\ peer_rpc_endpoints' = [peer_rpc_endpoints EXCEPT
                        ![m][key] = [taken EXCEPT
                                       !.cur_req_uuid = {},
                                       !.n_sent = @ + 1,
                                       !.bridge = IF ok THEN @ ELSE OnSendFailed(@)]]
                  /\ net' = TsptSend(net, BridgeRespPacket(m, ep, resp),
                                     BridgeRespDst(ep), ok)
    /\ UNCHANGED <<dispatcher, service_registry, client_resp_receivers, scopes,
                   run_service_ret, registered, creator_calls, recv_log, n_inject>>

\* ----------------------------------------------------- do_client_rpc_scoped
\* the call's state after its channels are made and its two tasks spawned
NewScope(service_id, dst_peer_id) ==
    [service_id |-> service_id,
     dst_peer_id |-> dst_peer_id,
     pc |-> "spawned",             \* spawned -> running (f) -> returned
     packet_receiver |-> <<>>,     \* packets the dispatcher sent, not yet taken
     server_r |-> <<>>,            \* messages of f the egress task has not taken
     calls |-> <<>>,               \* arguments of the requests f issued
     pending |-> FALSE,            \* f awaits the response to its last request
     rets |-> <<>>]                \* what f's requests returned

\* do_client_rpc_scoped(service_id, dst_peer_id, f) is called on peer m
ScopeStart(m, service_id, dst_peer_id) ==
    /\ Started
    /\ OpsUsed < MaxOps
    /\ scopes' = [scopes EXCEPT ![m] = Append(@, NewScope(service_id, dst_peer_id))]
    /\ UNCHANGED <<dispatcher, service_registry, peer_rpc_endpoints,
                   client_resp_receivers, net, run_service_ret, registered, creator_calls,
                   recv_log, n_inject>>

\* faulty variant: f is started before the sink is inserted
ScopeCanCallEarly(scope) == scope.pc \in {"spawned", "running"}

\* the state f may issue requests in
ScopeCanCall(scope) == scope.pc = "running"

\* client_resp_receivers.insert(PeerRpcClientCtxKey(dst_peer_id, service_id), ..)
ScopeInsert(m, i) ==
    /\ i \in DOMAIN scopes[m]
    /\ scopes[m][i].pc = "spawned"
    /\ client_resp_receivers' = [client_resp_receivers EXCEPT
          ![m] = MapInsert(@, <<scopes[m][i].dst_peer_id, scopes[m][i].service_id>>, i)]
    /\ scopes' = [scopes EXCEPT ![m][i].pc = "running"]
    /\ UNCHANGED <<dispatcher, service_registry, peer_rpc_endpoints, net,
                   run_service_ret, registered, creator_calls, recv_log, n_inject>>

\* f issues a request on client_transport (request ids count from 1 per client)
ScopeCall(m, i, arg) ==
    /\ i \in DOMAIN scopes[m]
    /\ LET scope == scopes[m][i] IN
       /\ ScopeCanCall(scope)
       /\ ~scope.pending
       /\ OpsUsed < MaxOps
       /\ scopes' = [scopes EXCEPT ![m][i] =
             [scope EXCEPT !.calls = Append(@, arg),
                           !.pending = TRUE,
                           !.server_r = Append(@, ClientMessage(Len(scope.calls) + 1, arg))]]
    /\ UNCHANGED <<dispatcher, service_registry, peer_rpc_endpoints,
                   client_resp_receivers, net, run_service_ret, registered, creator_calls,
                   recv_log, n_inject>>

\* faulty variant: the egress task marks its packets as responses
EgressPacketAsResp(m, scope, msg) ==
    NewTarpcPacket(m, scope.dst_peer_id, scope.service_id, FALSE, SerializeReq(msg))

\* the request packet the egress task builds
EgressPacket(m, scope, msg) ==
    NewTarpcPacket(m, scope.dst_peer_id, scope.service_id, TRUE, SerializeReq(msg))

\* the egress task: one turn of `while let Some(a) = server_r.next()`
Egress(m, i, ok) ==
    /\ i \in DOMAIN scopes[m]
    /\ LET scope == scopes[m][i] IN
       /\ scope.pc # "returned"
       /\ scope.server_r # <<>>
       /\ scopes' = [scopes EXCEPT ![m][i].server_r = Tail(@)]
       /\ net' = TsptSend(net, EgressPacket(m, scope, Head(scope.server_r)),
                          scope.dst_peer_id, ok)
    /\ UNCHANGED <<dispatcher, service_registry, peer_rpc_endpoints,
                   client_resp_receivers, run_service_ret, registered, creator_calls, recv_log,
                   n_inject>>

\* the ingress task: one turn of `while let Some(packet) = packet_receiver.recv()`;
\* server_s.send hands the response to f's client, which completes the pending
\* request of that id and ignores any other
Ingress(m, i) ==
    /\ i \in DOMAIN scopes[m]
    /\ LET scope == scopes[m][i] IN
       /\ scope.pc # "returned"
       /\ scope.packet_receiver # <<>>
       /\ LET packet == Head(scope.packet_receiver)
              info == ParseRpcPacket(packet)
              decoded == DeserializeResp(info.content)
              taken == [scope EXCEPT !.packet_receiver = Tail(@)]
          IN scopes' = [scopes EXCEPT ![m][i] =
                IF info.ok /\ decoded.ok /\ scope.pending
                   /\ decoded.msg.request_id = Len(scope.calls)
                THEN [taken EXCEPT !.pending = FALSE,
                                   !.rets = Append(@, decoded.msg.ret)]
                ELSE taken]
    /\ UNCHANGED <<dispatcher, service_registry, peer_rpc_endpoints,
                   client_resp_receivers, net, run_service_ret, registered, creator_calls,
                   recv_log, n_inject>>

\* f's pending request reaches its deadline: the call returns an error to f
ScopeTimeout(m, i) ==
    /\ i \in DOMAIN scopes[m]
    /\ scopes[m][i].pc = "running"
    /\ scopes[m][i].pending
    /\ scopes' = [scopes EXCEPT ![m][i].pending = FALSE,
                                ![m][i].rets = Append(@, <<"deadline", "exceeded">>)]
    /\ UNCHANGED <<dispatcher, service_registry, peer_rpc_endpoints,
                   client_resp_receivers, net, run_service_ret, registered, creator_calls,
                   recv_log, n_inject>>

\* what do_client_rpc_scoped does to client_resp_receivers when f has returned
ScopeExitReceivers(receivers, scope) == receivers

\* f returns and so does do_client_rpc_scoped: `tasks` is dropped, which aborts
\* the egress and ingress tasks and drops their channel halves
ScopeReturn(m, i) ==
    /\ i \in DOMAIN scopes[m]
    /\ LET scope == scopes[m][i] IN
       /\ scope.pc = "running"
       /\ ~scope.pending
       /\ scope.calls # <<>>
       /\ scopes' = [scopes EXCEPT ![m][i] =
             [scope EXCEPT !.pc = "returned", !.packet_receiver = <<>>,
                           !.server_r = <<>>]]
       /\ client_resp_receivers' = [client_resp_receivers EXCEPT
             ![m] = ScopeExitReceivers(@, scope)]
    /\ UNCHANGED <<dispatcher, service_registry, peer_rpc_endpoints, net,
                   run_service_ret, registered, creator_calls, recv_log, n_inject>>

\* ------------------------------------------------- frames of the remote peer
\* frames peer `from` can put on the transport towards peer m
RemoteFrames(from, m) ==
    IF m \in ServerPeers
    THEN {NewTarpcPacket(from, m, sid, TRUE, SerializeReq(ClientMessage(1, arg))) :
             sid \in ServiceIds, arg \in Args}
         \cup {NewTarpcPacket(from, m, sid, TRUE, <<>>) : sid \in ServiceIds}
         \cup {OtherPacket(from, m)}
    ELSE {NewTarpcPacket(from, m, sid, FALSE,
                         SerializeResp(Response(1, Hello("remote", arg)))) :
             sid \in ServiceIds, arg \in Args}

\* the transport delivers a frame of a remote peer to peer m
Inject(m) ==
    /\ Started
    /\ OpsUsed < MaxOps
    /\ \E from \in RemotePeers : \E frame \in RemoteFrames(from, m) :
          net' = [net EXCEPT ![m] = Append(@, frame)]
    /\ n_inject' = n_inject + 1
    /\ UNCHANGED <<dispatcher, service_registry, peer_rpc_endpoints,
                   client_resp_receivers, scopes, run_service_ret, registered, creator_calls,
                   recv_log>>

\* ------------------------------------------------------------ specification
Next ==
    \/ \E m \in Muxes : Run(m)
    \/ \E m \in ServerPeers, service_id \in ServiceIds, s \in Handlers :
          RunService(m, service_id, s)
    \/ \E m \in Muxes : Dispatch(m)
    \/ \E m \in Muxes, key \in Keys : BridgeRecv(m, key)
    \/ \E m \in Muxes, key \in Keys : Serve(m, key)
    \/ \E m \in Muxes, key \in Keys, ok \in BOOLEAN : BridgeResp(m, key, ok)
    \/ \E m \in ClientPeers, service_id \in ServiceIds : \E dst \in Peers \ {m} :
          ScopeStart(m, service_id, dst)
    \/ \E m \in Muxes, i \in 1..MaxOps : ScopeInsert(m, i)
    \/ \E m \in Muxes, i \in 1..MaxOps, arg \in Args : ScopeCall(m, i, arg)
    \/ \E m \in Muxes, i \in 1..MaxOps, ok \in BOOLEAN : Egress(m, i, ok)
    \/ \E m \in Muxes, i \in 1..MaxOps : Ingress(m, i)
    \/ \E m \in Muxes, i \in 1..MaxOps : ScopeTimeout(m, i)
    \/ \E m \in Muxes, i \in 1..MaxOps : ScopeReturn(m, i)
    \/ \E m \in Muxes : Inject(m)

Spec == Init /\ [][Next]_vars

\* --------------------------------------------------- the echo scenario (tests)
\* peer_rpc_basic_test and the peer-manager tests: the users await one
\* do_client_rpc_scoped call before making the next, every closure issues one
\* request, the tunnel between the two peers loses nothing, no other peer
\* sends frames and no deadline passes.
EchoScopeStart(m, service_id, dst_peer_id) ==
    /\ \A i \in DOMAIN scopes[m] : scopes[m][i].pc = "returned"
    /\ ScopeStart(m, service_id, dst_peer_id)

EchoScopeCall(m, i, arg) ==
    /\ i \in DOMAIN scopes[m]
    /\ scopes[m][i].calls = <<>>
    /\ ScopeCall(m, i, arg)

NextEcho ==
    \/ \E m \in Muxes : Run(m)
    \/ \E m \in ServerPeers, service_id \in ServiceIds, s \in Handlers :
          RunService(m, service_id, s)
    \/ \E m \in Muxes : Dispatch(m)
    \/ \E m \in Muxes, key \in Keys : BridgeRecv(m, key)
    \/ \E m \in Muxes, key \in Keys : Serve(m, key)
    \/ \E m \in Muxes, key \in Keys : BridgeResp(m, key, TRUE)
    \/ \E m \in ClientPeers, service_id \in ServiceIds, dst \in ServerPeers :
          EchoScopeStart(m, service_id, dst)
    \/ \E m \in Muxes, i \in 1..MaxOps : ScopeInsert(m, i)
    \/ \E m \in Muxes, i \in 1..MaxOps, arg \in Args : EchoScopeCall(m, i, arg)
    \/ \E m \in Muxes, i \in 1..MaxOps : Egress(m, i, TRUE)
    \/ \E m \in Muxes, i \in 1..MaxOps : Ingress(m, i)
    \/ \E m \in Muxes, i \in 1..MaxOps : ScopeReturn(m, i)

\* every spawned task is scheduled again and again (tokio's scheduler is fair)
EchoFairness ==
    /\ \A m \in Muxes : WF_vars(Dispatch(m))
    /\ \A m \in Muxes, key \in Keys :
          /\ WF_vars(BridgeRecv(m, key))
          /\ WF_vars(Serve(m, key))
          /\ WF_vars(BridgeResp(m, key, TRUE))
    /\ \A m \in Muxes, i \in 1..MaxOps :
          /\ WF_vars(Egress(m, i, TRUE))
          /\ WF_vars(Ingress(m, i))

SpecEcho == Init /\ [][NextEcho]_vars /\ EchoFairness

\* ===================================================================== claims

\* the request of scope i of peer m is on its way and has not reached the
\* dispatcher of its destination
RequestOnItsWay(m, i) ==
    LET scope == scopes[m][i] IN
    \/ scope.server_r # <<>>
    \/ /\ scope.calls # <<>>
       /\ scope.dst_peer_id \in Muxes
       /\ \E k \in DOMAIN net[scope.dst_peer_id] :
             net[scope.dst_peer_id][k]
                = EgressPacket(m, scope, ClientMessage(1, scope.calls[1]))

\* scope i of peer m has issued its request while the destination has the
\* service registered and both dispatchers run
EchoCase(m, i) ==
    /\ i \in DOMAIN scopes[m]
    /\ Started
    /\ scopes[m][i].pending
    /\ scopes[m][i].service_id \in DOMAIN service_registry[scopes[m][i].dst_peer_id]
    /\ RequestOnItsWay(m, i)

\* f of scope i of peer m got back what the destination's handler for the
\* service made of its argument
EchoDone(m, i) ==
    /\ i \in DOMAIN scopes[m]
    /\ LET scope == scopes[m][i]
           dst == scope.dst_peer_id
           key == <<dst, scope.service_id>>
       IN /\ ~scope.pending
          /\ scope.calls # <<>>
          /\ dst \in Muxes
          /\ key \in DOMAIN peer_rpc_endpoints[dst]
          /\ scope.rets = <<Hello(peer_rpc_endpoints[dst][key].s, scope.calls[1])>>
          /\ <<scope.service_id, peer_rpc_endpoints[dst][key].s>> \in registered[dst]

\* C1: end-to-end echo.  Between two started multiplexers joined by a lossless
\* transport, a request issued by a scope while its service is registered at
\* the destination is eventually answered with exactly the response the
\* destination's handler for that service produced (fair scheduling).
C1_EndToEndEcho ==
    \A m \in ClientPeers, i \in 1..MaxOps : EchoCase(m, i) ~> EchoDone(m, i)

\* C1 witness: a scope has returned with "hello_b abc" from a service that
\* was registered with the handler hello_b
C1_Witness ==
    \E m \in ClientPeers, i \in 1..MaxOps :
        /\ EchoDone(m, i)
        /\ scopes[m][i].pc = "returned"
        /\ scopes[m][i].rets = <<Hello("hello_b", "abc")>>

\* C2: service isolation.  Every endpoint sits under the service id of the
\* creator that made it, every packet handed to it carries that service id
\* (the bridge's assert_eq never fails), and its handler is one that was
\* registered for that service id.
C2_ServiceIsolation ==
    \A m \in Muxes : \A key \in DOMAIN peer_rpc_endpoints[m] :
        LET ep == peer_rpc_endpoints[m][key] IN
        /\ ep.bridge # "panicked"
        /\ ep.service_id = key[2]
        /\ <<ep.service_id, ep.s>> \in registered[m]
        /\ \A k \in DOMAIN ep.packet_receiver :
              ParseRpcPacket(ep.packet_receiver[k]).service_id = ep.service_id

\* C2 witness: endpoints of two services exist on one peer, each with its own
\* handler, and both have been handed requests
C2_Witness ==
    \E m \in Muxes :
        /\ <<m, 1>> \in DOMAIN peer_rpc_endpoints[m]
        /\ <<m, 2>> \in DOMAIN peer_rpc_endpoints[m]
        /\ peer_rpc_endpoints[m][<<m, 1>>].s # peer_rpc_endpoints[m][<<m, 2>>].s
        /\ peer_rpc_endpoints[m][<<m, 1>>].to_server # <<>>
        /\ peer_rpc_endpoints[m][<<m, 2>>].packet_receiver # <<>>

\* C3: exactly-one registration.  A run_service call panics exactly when its
\* service id is already in the registry, returns normally exactly when it is
\* absent, and the id is in the registry afterwards.
C3_ExactlyOneRegistration ==
    [][run_service_ret'.n # run_service_ret.n =>
         LET call == run_service_ret'
             present == call.service_id \in DOMAIN service_registry[call.mux]
         IN /\ present => call.ret = "panic"
            /\ ~present => call.ret = "ok"
            /\ call.service_id \in DOMAIN service_registry'[call.mux]]_vars

\* C3 witness: a run_service call for a registered id has panicked
C3_Witness ==
    /\ run_service_ret.ret = "panic"
    /\ run_service_ret.n >= 2
    /\ run_service_ret.service_id \in DOMAIN service_registry[run_service_ret.mux]

\* C4: endpoint uniqueness (the claim as stated).  For every peer P whose
\* requests on service S have been handed to an endpoint, the creator has been
\* invoked exactly once for (P, S), and all of P's requests on S went to one
\* endpoint.
C4_EndpointUniqueness ==
    \A m \in Muxes : \A key \in DOMAIN peer_rpc_endpoints[m] :
        LET ep == peer_rpc_endpoints[m][key] IN
        \A P \in ep.origins :
            /\ Cardinality({k \in DOMAIN creator_calls[m] :
                              creator_calls[m][k] = <<P, ep.service_id>>}) = 1
            /\ \A key2 \in DOMAIN peer_rpc_endpoints[m] :
                  (/\ P \in peer_rpc_endpoints[m][key2].origins
                   /\ peer_rpc_endpoints[m][key2].service_id = ep.service_id)
                  => key2 = key

\* C5: endpoint binding (the claim as stated).  Every packet handed to an
\* endpoint came from the peer the endpoint is bound to.
C5_EndpointBinding ==
    \A m \in Muxes : \A key \in DOMAIN peer_rpc_endpoints[m] :
        \A P \in peer_rpc_endpoints[m][key].origins :
            P = peer_rpc_endpoints[m][key].peer_id

\* C6: request/response pairing.  An endpoint has handed at most as many
\* response packets to the transport as requests have been enqueued into it.
C6_RequestResponsePairing ==
    \A m \in Muxes : \A key \in DOMAIN peer_rpc_endpoints[m] :
        peer_rpc_endpoints[m][key].n_sent <= peer_rpc_endpoints[m][key].n_enqueued

\* C6 witness: an endpoint has answered both of the two requests enqueued
C6_Witness ==
    \E m \in Muxes : \E key \in DOMAIN peer_rpc_endpoints[m] :
        /\ peer_rpc_endpoints[m][key].n_enqueued = 2
        /\ peer_rpc_endpoints[m][key].n_sent = 2

\* the dispatcher of peer m takes a frame in this step
Receives(m) == Len(recv_log'[m]) = Len(recv_log[m]) + 1

\* the frame the dispatcher of peer m takes next
NextFrame(m) == ParseRpcPacket(Head(net[m]))

\* C7: response routing (the claim as stated).  A response received while a
\* sink is registered under its (from_peer, service id) is appended, unchanged,
\* to the queue of that sink, and no other scope changes.
C7_ResponseRouting ==
    [][\A m \in Muxes :
          (/\ Receives(m)
           /\ NextFrame(m).ok
           /\ ~NextFrame(m).is_req
           /\ ClientCtxKey(NextFrame(m)) \in DOMAIN client_resp_receivers[m])
          => LET a == client_resp_receivers[m][ClientCtxKey(NextFrame(m))] IN
             scopes'[m] = [scopes[m] EXCEPT
                             ![a].packet_receiver = Append(@, Head(net[m]))]]_vars

\* C8: response without sink.  A response received while no sink is registered
\* under its (from_peer, service id) is dropped: the registry, the endpoints,
\* the sinks and the scopes stay as they are, no frame is sent, and the
\* dispatcher is still running.
C8_ResponseWithoutSink ==
    [][\A m \in Muxes :
          (/\ Receives(m)
           /\ NextFrame(m).ok
           /\ ~NextFrame(m).is_req
           /\ ClientCtxKey(NextFrame(m)) \notin DOMAIN client_resp_receivers[m])
          => /\ dispatcher'[m] = "running"
             /\ net' = [net EXCEPT ![m] = Tail(@)]
             /\ UNCHANGED <<service_registry, peer_rpc_endpoints,
                            client_resp_receivers, scopes>>]_vars

\* k < l and the dispatcher of peer m did `first` with its k-th frame and
\* `later` with its l-th
LogHasInOrder(m, first, later) ==
    \E k, l \in DOMAIN recv_log[m] :
        k < l /\ recv_log[m][k] = first /\ recv_log[m][l] = later

\* C8 witness: a dispatcher dropped a response without sink and afterwards
\* routed a response to a scope
C8_Witness ==
    \E m \in Muxes :
        /\ LogHasInOrder(m, "receiver_not_found", "to_client")
        /\ dispatcher[m] = "running"

\* C9: unknown service.  A request whose service id is not registered is
\* dropped: no endpoint is created or changed, no frame is sent, and the
\* dispatcher is still running; a request whose service id is registered is
\* handed to the endpoint under its key.
C9_UnknownService ==
    [][\A m \in Muxes :
          (Receives(m) /\ NextFrame(m).ok /\ NextFrame(m).is_req)
          => IF NextFrame(m).service_id \notin DOMAIN service_registry[m]
             THEN /\ dispatcher'[m] = "running"
                  /\ net' = [net EXCEPT ![m] = Tail(@)]
                  /\ UNCHANGED <<service_registry, peer_rpc_endpoints,
                                 client_resp_receivers, scopes, creator_calls>>
             ELSE LET key == EndPointKey(NextFrame(m)) IN
                  /\ dispatcher'[m] = "running"
                  /\ key \in DOMAIN peer_rpc_endpoints'[m]
                  /\ LET q == peer_rpc_endpoints'[m][key].packet_receiver IN
                     q # <<>> /\ q[Len(q)] = Head(net[m])]_vars

\* C9 witness: a dispatcher dropped a request for an unregistered service id,
\* later handed a request to an endpoint of that id, and the endpoint has sent
\* its response
C9_Witness ==
    \E m \in Muxes : \E key \in DOMAIN peer_rpc_endpoints[m] :
        /\ LogHasInOrder(m, "service_not_found", "to_endpoint")
        /\ Cardinality(DOMAIN service_registry[m]) = 1
        /\ peer_rpc_endpoints[m][key].n_sent = 1
        /\ dispatcher[m] = "running"

\* C10: sink lifetime (the claim as stated).  Every entry of the client
\* response router belongs to a do_client_rpc_scoped call for its key that has
\* registered its sink and has not returned.
C10_SinkLifetime ==
    \A m \in Muxes : \A key \in DOMAIN client_resp_receivers[m] :
        LET scope == scopes[m][client_resp_receivers[m][key]] IN
        /\ key = <<scope.dst_peer_id, scope.service_id>>
        /\ scope.pc = "running"

\* the endpoints of peer m that exist before and after the step
StayingKeys(m) == DOMAIN peer_rpc_endpoints[m] \cap DOMAIN peer_rpc_endpoints'[m]

\* the bridge of endpoint key of peer m injects a request in this step
Injects(m, key) ==
    Len(peer_rpc_endpoints'[m][key].to_server)
       = Len(peer_rpc_endpoints[m][key].to_server) + 1

\* C11: strictly serial bridge (the claim as stated).  Whenever the bridge of
\* an endpoint injects a request into the in-process channel, no earlier
\* injected request is unanswered: none waits for the handler and no response
\* of the handler waits to be emitted.
C11_StrictlySerialBridge ==
    [][\A m \in Muxes : \A key \in StayingKeys(m) :
          Injects(m, key)
          => /\ peer_rpc_endpoints[m][key].to_server = <<>>
             /\ peer_rpc_endpoints[m][key].from_server = <<>>]_vars

\* C12: invalid packet (the claim as stated).  When the dispatcher receives a
\* packet whose body variant is not TaRpc it drops it: the dispatcher is still
\* running, and the registry, the endpoints, the sinks and the scopes stay as
\* they are.
C12_InvalidPacketDropped ==
    [][\A m \in Muxes :
          (Receives(m) /\ ~NextFrame(m).ok)
          => /\ dispatcher'[m] = "running"
             /\ net' = [net EXCEPT ![m] = Tail(@)]
             /\ UNCHANGED <<service_registry, peer_rpc_endpoints,
                            client_resp_receivers, scopes>>]_vars

\* endpoint key of peer m hands a response packet to the transport in this step
HandsResponse(m, key) ==
    peer_rpc_endpoints'[m][key].n_sent = peer_rpc_endpoints[m][key].n_sent + 1

\* the transport takes a frame for peer d in this step
Lands(d) == Len(net'[d]) = Len(net[d]) + 1

\* the frame the transport has taken last for peer d
Landed(d) == ParseRpcPacket(net'[d][Len(net'[d])])

\* C13: response envelope (the claim as stated).  Every response packet an
\* endpoint hands to the transport is a TaRpc response from this peer's id,
\* with the endpoint's service id, to the endpoint's bound remote peer.
C13_ResponseEnvelope ==
    [][\A m \in Muxes : \A key \in StayingKeys(m) : \A d \in Muxes :
          (HandsResponse(m, key) /\ Lands(d))
          => LET ep == peer_rpc_endpoints[m][key] IN
             /\ Landed(d).ok
             /\ ~Landed(d).is_req
             /\ Landed(d).from_peer = m
             /\ Landed(d).service_id = ep.service_id
             /\ Landed(d).to_peer = ep.peer_id]_vars

\* the dispatcher of peer m hands the frame it takes to an endpoint in this step
HandsRequest(m) ==
    /\ Receives(m)
    /\ recv_log'[m][Len(recv_log'[m])] = "to_endpoint"

\* the packets waiting in endpoint key of peer m (none if it does not exist)
Waiting(m, key) ==
    IF key \in DOMAIN peer_rpc_endpoints[m]
    THEN peer_rpc_endpoints[m][key].packet_receiver
    ELSE <<>>

\* C14: per-endpoint request order.  The dispatcher puts every request frame
\* it takes from the transport behind all packets waiting in its endpoint; the
\* bridge injects the request of the packet that has waited longest, behind
\* all requests it injected before.  So the requests of an endpoint are
\* injected in the order the dispatcher received their frames.
C14_RequestOrder ==
    [][\A m \in Muxes :
          /\ HandsRequest(m)
             => LET key == EndPointKey(NextFrame(m)) IN
                peer_rpc_endpoints'[m][key].packet_receiver
                   = Append(Waiting(m, key), Head(net[m]))
          /\ \A key \in StayingKeys(m) :
                Injects(m, key)
                => LET ep == peer_rpc_endpoints[m][key]
                       oldest == ParseRpcPacket(Head(ep.packet_receiver))
                   IN /\ ep.packet_receiver # <<>>
                      /\ peer_rpc_endpoints'[m][key].packet_receiver
                            = Tail(ep.packet_receiver)
                      /\ peer_rpc_endpoints'[m][key].to_server
                            = Append(ep.to_server,
                                     DeserializeReq(oldest.content).msg)]_vars

\* C14 witness: the bridge has injected the two requests of one closure, the
\* first before the second, as the dispatcher received them
C14_Witness ==
    \E m \in Muxes : \E key \in DOMAIN peer_rpc_endpoints[m] :
        /\ peer_rpc_endpoints[m][key].to_server
              = <<ClientMessage(1, "abc"), ClientMessage(2, "abc")>>
        /\ peer_rpc_endpoints[m][key].n_enqueued = 2
        /\ recv_log[m] = <<"to_endpoint", "to_endpoint">>

\* endpoint key of peer m hands a response to the transport in this step and
\* the transport's send to a reachable peer fails: no frame joins any queue
SendFails(m, key) ==
    /\ HandsResponse(m, key)
    /\ peer_rpc_endpoints[m][key].peer_id \in Muxes
    /\ net' = net

C16_DuplicateLeavesRegistry ==
    [][(/\ run_service_ret'.n # run_service_ret.n
        /\ run_service_ret'.ret = "panic")
       => service_registry' = service_registry]_vars

\* the bridge of endpoint key of peer m takes a response of the handler from
\* the in-process channel in this step
TakesResponse(m, key) ==
    Len(peer_rpc_endpoints'[m][key].from_server)
       = Len(peer_rpc_endpoints[m][key].from_server) - 1

\* C17: no response is lost to the empty-slot check (the claim as stated).
\* Every response of the handler the bridge takes from the in-process channel
\* is handed to the transport.
C17_NoResponseLostToSlot ==
    [][\A m \in Muxes : \A key \in StayingKeys(m) :
          TakesResponse(m, key) => HandsResponse(m, key)]_vars

\* scopes i and j of peer m are two do_client_rpc_scoped calls for the same
\* (dst_peer, service_id), both between registering their sink and returning
ActiveTogether(m, i, j) ==
    /\ i # j
    /\ scopes[m][i].pc = "running"
    /\ scopes[m][j].pc = "running"
    /\ scopes[m][i].dst_peer_id = scopes[m][j].dst_peer_id
    /\ scopes[m][i].service_id = scopes[m][j].service_id

\* C18: no cross-scope delivery (the claim as stated).  While two calls for
\* the same (dst_peer, service_id) are active and every request on the wire is
\* a request of a scope, the queue of a scope that has sent no request holds
\* no packet: a response to the other scope's request is never enqueued into it.
C18_NoCrossScopeDelivery ==
    \A m \in Muxes : \A i, j \in DOMAIN scopes[m] :
        (/\ ActiveTogether(m, i, j)
         /\ n_inject = 0
         /\ scopes[m][j].calls = <<>>)
        => scopes[m][j].packet_receiver = <<>>

\* the bridge of endpoint key of peer m takes a packet whose payload does not
\* deserialize from its inbound queue in this step
SkipsRequest(m, key) ==
    LET ep == peer_rpc_endpoints[m][key] IN
    /\ ep.packet_receiver # <<>>
    /\ peer_rpc_endpoints'[m][key].packet_receiver = Tail(ep.packet_receiver)
    /\ ParseRpcPacket(Head(ep.packet_receiver)).ok
    /\ ~DeserializeReq(ParseRpcPacket(Head(ep.packet_receiver)).content).ok

\* C19: a skipped request has no effect (the claim as stated).  When the
\* payload of a request packet fails to deserialize, nothing is injected and
\* the endpoint, its current-request-origin slot included, is as it was before
\* the packet arrived in its queue.
C19_SkippedRequestNoEffect ==
    [][\A m \in Muxes : \A key \in StayingKeys(m) :
          SkipsRequest(m, key)
          => peer_rpc_endpoints'[m][key]
                = [peer_rpc_endpoints[m][key] EXCEPT !.packet_receiver = Tail(@)]]_vars

\* C20: response destination agrees with response addressing (the claim as
\* stated).  Every response packet of an endpoint that the transport holds for
\* a peer, the destination the bridge passed to send, carries that peer in its
\* to_peer field.
C20_DestinationIsAddressee ==
    \A d \in Muxes : \A k \in DOMAIN net[d] :
        LET info == ParseRpcPacket(net[d][k]) IN
        (info.ok /\ ~info.is_req /\ info.from_peer \in Muxes)
        => info.to_peer = d

\* the key scope i of peer m registers its sink under
SinkKey(m, i) == <<scopes[m][i].dst_peer_id, scopes[m][i].service_id>>

\* C21: sink before first request.  A do_client_rpc_scoped call that has not
\* yet registered its sink has issued no request and its egress task holds
\* none, so none of its request packets was handed to the transport; once a
\* call has issued a request, a sink is registered under its (P, S).
C21_SinkBeforeFirstRequest ==
    \A m \in Muxes : \A i \in DOMAIN scopes[m] :
        /\ scopes[m][i].pc = "spawned"
           => /\ scopes[m][i].calls = <<>>
              /\ scopes[m][i].server_r = <<>>
        /\ scopes[m][i].calls # <<>>
           => SinkKey(m, i) \in DOMAIN client_resp_receivers[m]

\* C21 witness: a call registered its sink, sent its first request, and the
\* response came back through that sink to f
C21_Witness ==
    \E m \in Muxes : \E i \in DOMAIN scopes[m] :
        /\ scopes[m][i].pc = "running"
        /\ SinkKey(m, i) \in DOMAIN client_resp_receivers[m]
        /\ client_resp_receivers[m][SinkKey(m, i)] = i
        /\ Len(scopes[m][i].calls) = 1
        /\ scopes[m][i].rets = <<Hello("hello_a", "abc")>>
        /\ recv_log[m] = <<"to_client">>

====
